---- MODULE Spec2Model ----
(***************************************************************************)
(* Model of utils.go: the metric converters (ValueConvertPercentage,       *)
(* MemoryValueConvert, DiskValueConvert), the formula evaluator they share *)
(* (applyFormula, evalFormula, RoundTwo, firstErr) and the string          *)
(* coercions (StringToUint64, ConvertStringToInt, StringToFloat).          *)
(*                                                                         *)
(* Strings are sequences of one-character strings.  uint64/int values are  *)
(* arbitrary-precision naturals (sequences of 15-bit limbs), so the 64-bit *)
(* limits are exact.  float64 values are IEEE-754 binary64 values          *)
(* [k |-> "num", s, m, e] = (-1)^s * m * 2^e with every operation rounded  *)
(* to nearest-even as the hardware does, plus infinities and NaN.          *)
(***************************************************************************)
EXTENDS Integers, Sequences, FiniteSets, TLC

(* ---------------- arbitrary-precision naturals ------------------------- *)
\* A natural is a little-endian sequence of limbs in 0..Base-1 with no
\* leading (high) zero limb; zero is the empty sequence.
LimbBits == 15
Base == 2 ^ LimbBits

Pow2(n) == 2 ^ n

Max(a, b) == IF a >= b THEN a ELSE b
Min(a, b) == IF a <= b THEN a ELSE b

\* a without its high zero limbs
BNorm(a) ==
  IF \A i \in 1..Len(a) : a[i] = 0 THEN <<>>
  ELSE SubSeq(a, 1, CHOOSE i \in 1..Len(a) :
                      a[i] # 0 /\ \A j \in (i + 1)..Len(a) : a[j] = 0)

\* the natural n, for an integer 0 <= n < 2^31
BFromInt(n) == BNorm(<<n % Base, (n \div Base) % Base, n \div (Base * Base)>>)

Limb(a, i) == IF i <= Len(a) THEN a[i] ELSE 0

\* a + b; the carry into limb i comes from the nearest lower limb whose
\* sum overflows, through limbs whose sums are all Base - 1
BAdd(a, b) ==
  LET n == Max(Len(a), Len(b))
      S(i) == Limb(a, i) + Limb(b, i)
      Carry(i) == \E j \in 1..(i - 1) :
                    S(j) >= Base /\ \A h \in (j + 1)..(i - 1) : S(h) = Base - 1
  IN  BNorm([i \in 1..(n + 1) |-> (S(i) + IF Carry(i) THEN 1 ELSE 0) % Base])

\* a - b for a >= b
BSub(a, b) ==
  LET D(i) == a[i] - Limb(b, i)
      Borrow(i) == \E j \in 1..(i - 1) :
                     D(j) < 0 /\ \A h \in (j + 1)..(i - 1) : D(h) = 0
  IN  BNorm([i \in 1..Len(a) |->
               (D(i) + Base - IF Borrow(i) THEN 1 ELSE 0) % Base])

\* -1, 0, 1 as a < b, a = b, a > b
BCmp(a, b) ==
  IF Len(a) < Len(b) THEN -1
  ELSE IF Len(a) > Len(b) THEN 1
  ELSE IF a = b THEN 0
  ELSE LET i == CHOOSE h \in 1..Len(a) :
                  a[h] # b[h] /\ \A g \in (h + 1)..Len(a) : a[g] = b[g]
       IN  IF a[i] < b[i] THEN -1 ELSE 1

Zeros(n) == [i \in 1..n |-> 0]

\* a * k for 0 <= k <= Base: the low halves of the limb products plus the
\* high halves one limb up
BMulSmall(a, k) ==
  IF k = 0 \/ a = <<>> THEN <<>>
  ELSE BAdd(BNorm([i \in 1..Len(a) |-> (a[i] * k) % Base]),
            BNorm([i \in 1..(Len(a) + 1) |->
                     IF i = 1 THEN 0 ELSE (a[i - 1] * k) \div Base]))

RECURSIVE BMulAt(_, _, _)
BMulAt(a, b, i) ==
  IF i > Len(b) THEN <<>>
  ELSE BAdd(IF b[i] = 0 THEN <<>> ELSE Zeros(i - 1) \o BMulSmall(a, b[i]),
            BMulAt(a, b, i + 1))

BMul(a, b) ==
  IF a = <<>> \/ b = <<>> THEN <<>>
  ELSE IF Len(a) < Len(b) THEN BMulAt(b, a, 1)
  ELSE BMulAt(a, b, 1)

\* a * 2^n
BShl(a, n) ==
  IF a = <<>> THEN <<>>
  ELSE Zeros(n \div LimbBits) \o BMulSmall(a, Pow2(n % LimbBits))

\* floor(a / 2^n)
BShr(a, n) ==
  LET q == n \div LimbBits
      r == n % LimbBits
      p == Pow2(r)
      h == Pow2(LimbBits - r)
  IN  IF q >= Len(a) THEN <<>>
      ELSE BNorm([i \in 1..(Len(a) - q) |->
                    (a[i + q] \div p) + (Limb(a, i + q + 1) % p) * h])

\* the number of bits of 0 <= n < Base
IntBitLen(n) == CHOOSE k \in 0..LimbBits : n < Pow2(k) /\ (k = 0 \/ n >= Pow2(k - 1))

BBitLen(a) ==
  IF a = <<>> THEN 0 ELSE LimbBits * (Len(a) - 1) + IntBitLen(a[Len(a)])

\* bit i (0 = least significant) of a
BBit(a, i) == (Limb(a, (i \div LimbBits) + 1) \div Pow2(i % LimbBits)) % 2

\* a mod 2^n = 0
BLowZero(a, n) ==
  /\ \A i \in 1..Min(n \div LimbBits, Len(a)) : a[i] = 0
  /\ Limb(a, (n \div LimbBits) + 1) % Pow2(n % LimbBits) = 0

BOdd(a) == a # <<>> /\ a[1] % 2 = 1

RECURSIVE BDivSmallAt(_, _, _, _)
BDivSmallAt(a, k, i, r) ==
  IF i = 0 THEN [q |-> <<>>, r |-> r]
  ELSE LET cur  == r * Base + a[i]
           rest == BDivSmallAt(a, k, i - 1, cur % k)
       IN  [q |-> rest.q \o <<cur \div k>>, r |-> rest.r]

\* quotient and remainder of a by k, 0 < k < Base
BDivModSmall(a, k) ==
  LET d == BDivSmallAt(a, k, Len(a), 0) IN [q |-> BNorm(d.q), r |-> d.r]

\* the largest x in 0..Base-1 with b * x <= cur, for cur < b * Base and b
\* with the high bit of its top limb set: the quotient of the top two limbs
\* of cur by the top limb of b is at most 2 too large (Knuth, 4.3.1 D)
\* The quotient limb of cur by b, from the estimate qhat, which is at most
\* two too large
QFix(cur, b, qhat) ==
  IF BCmp(BMulSmall(b, qhat), cur) <= 0 THEN qhat
  ELSE IF BCmp(BMulSmall(b, qhat - 1), cur) <= 0 THEN qhat - 1
  ELSE qhat - 2

QDigit(cur, b) ==
  QFix(cur, b,
       Min((Limb(cur, Len(b) + 1) * Base + Limb(cur, Len(b))) \div b[Len(b)],
           Base - 1))

RECURSIVE BDivLimbs(_, _, _, _)

WithLimb(rest, d) == [q |-> rest.q \o <<d>>, r |-> rest.r]

\* The test on d evaluates the quotient limb before the recursion descends.
DivLimb(a, b, i, cur, d) ==
  IF d < 0 THEN [q |-> <<>>, r |-> <<>>]
  ELSE WithLimb(BDivLimbs(a, b, i - 1, BSub(cur, BMulSmall(b, d))), d)

DivStep(a, b, i, cur) == DivLimb(a, b, i, cur, QDigit(cur, b))

BDivLimbs(a, b, i, r) ==
  IF i = 0 THEN [q |-> <<>>, r |-> r]
  ELSE DivStep(a, b, i, BNorm(<<a[i]>> \o r))

Unscaled(d, sh) == [q |-> BNorm(d.q), r |-> BShr(d.r, sh)]

DivNormalised(an, bn, sh) == Unscaled(BDivLimbs(an, bn, Len(an), <<>>), sh)

BDivScaled(a, b, sh) == DivNormalised(BShl(a, sh), BShl(b, sh), sh)

\* quotient and remainder of a by b, b > 0: schoolbook long division of
\* both scaled so that b's top limb has its high bit set
BDivMod(a, b) == BDivScaled(a, b, LimbBits - IntBitLen(b[Len(b)]))

\* Decimal digits (most significant first) are converted four at a time.
Chunk == 10000

StripZeros(ds) ==
  IF \A i \in 1..Len(ds) : ds[i] = 0 THEN <<>>
  ELSE SubSeq(ds, CHOOSE i \in 1..Len(ds) :
                    ds[i] # 0 /\ \A j \in 1..(i - 1) : ds[j] = 0,
              Len(ds))

RECURSIVE BFromDigits(_)
\* the natural written by the decimal digits ds
BFromDigits(ds) ==
  LET n == Len(ds)
      D(i) == IF i >= 1 THEN ds[i] ELSE 0
      low == D(n - 3) * 1000 + D(n - 2) * 100 + D(n - 1) * 10 + D(n)
  IN  IF n = 0 THEN <<>>
      ELSE IF n <= 4 THEN BFromInt(low)
      ELSE BAdd(BMulSmall(BFromDigits(SubSeq(ds, 1, n - 4)), Chunk),
                BFromInt(low))

RECURSIVE BToChunks(_)
BToChunks(a) ==
  IF a = <<>> THEN <<>>
  ELSE LET d == BDivModSmall(a, Chunk)
       IN  BToChunks(d.q)
           \o <<d.r \div 1000, (d.r \div 100) % 10, (d.r \div 10) % 10, d.r % 10>>

\* the decimal digits of a, without leading zeros (none for zero)
BToDigits(a) == StripZeros(BToChunks(a))

RECURSIVE BPow10(_)
\* 10^n by repeated squaring
BPow10(n) ==
  IF n = 0 THEN <<1>>
  ELSE IF n % 2 = 1 THEN BMulSmall(BPow10(n - 1), 10)
  ELSE LET h == BPow10(n \div 2) IN BMul(h, h)

(* ---------------- float64 (IEEE-754 binary64) -------------------------- *)
\* A finite float64 is (-1)^s * m * 2^e with m below 2^53; it is kept
\* normalised: m has exactly 53 bits, or e = MinExp (subnormal), or m = 0
\* and e = 0.
MantBits == 53
MinExp == -1074
MaxExp == 971

FNum(s, m, e) == [k |-> "num", s |-> s, m |-> m, e |-> e]
FInf(s) == [k |-> "inf", s |-> s, m |-> <<>>, e |-> 0]
FNaN == [k |-> "nan", s |-> 0, m |-> <<>>, e |-> 0]
FZero(s) == FNum(s, <<>>, 0)

\* n rounded to a multiple of 2^drop and divided by it, ties to even;
\* sticky says that a non-zero fraction below n's last bit was cut off
\* before.
BShrEven(n, drop, sticky) ==
  IF drop <= 0 THEN n
  ELSE LET q  == BShr(n, drop)
           rb == BBit(n, drop - 1)
           st == sticky \/ ~BLowZero(n, drop - 1)
       IN  IF rb = 1 /\ (st \/ BOdd(q)) THEN BAdd(q, <<1>>) ELSE q

\* (-1)^s * m * 2^e as a float64, for m of at most MantBits bits
Pack(s, m, e) ==
  IF m = <<>> THEN FZero(s)
  ELSE IF e > MaxExp THEN FInf(s)
  ELSE FNum(s, m, e)

\* rounding up may have carried into one more bit
Renormalised(s, m, e) ==
  IF BBitLen(m) > MantBits THEN Pack(s, BShr(m, 1), e + 1) ELSE Pack(s, m, e)

RoundDropping(s, n, e, sticky, drop) ==
  Renormalised(s,
               IF drop <= 0 THEN BShl(n, 0 - drop)
               ELSE BShrEven(n, drop, sticky),
               e + drop)

\* (-1)^s * (n + f) * 2^e rounded to the nearest float64, ties to even,
\* where 0 <= f < 1 and sticky = (f > 0); when sticky, n has more than
\* MantBits + 1 bits.
F64Round(s, n, e, sticky) ==
  IF n = <<>> THEN FZero(s)
  ELSE RoundDropping(s, n, e, sticky,
                     Max(BBitLen(n) - MantBits, MinExp - e))

RoundQuotient(s, dm, e) == F64Round(s, dm.q, e, dm.r # <<>>)

DivideShifted(s, n, d, e, t) == RoundQuotient(s, BDivMod(BShl(n, t), d), e - t)

\* (-1)^s * (n / d) * 2^e rounded to the nearest float64, for d > 0
F64FromRat(s, n, d, e) ==
  IF n = <<>> THEN FZero(s)
  ELSE DivideShifted(s, n, d, e,
                     Max(0, MantBits + 3 + BBitLen(d) - BBitLen(n)))

\* float64(u) for an unsigned integer u
F64FromNat(u) == F64Round(0, u, 0, FALSE)

F64Neg(a) == IF a.k = "nan" THEN a ELSE [a EXCEPT !.s = 1 - a.s]

IsZero(a) == a.k = "num" /\ a.m = <<>>

F64Mul(a, b) ==
  LET s == (a.s + b.s) % 2
  IN  CASE a.k = "nan" \/ b.k = "nan" -> FNaN
        [] a.k = "inf" \/ b.k = "inf" ->
             IF IsZero(a) \/ IsZero(b) THEN FNaN ELSE FInf(s)
        [] OTHER -> F64Round(s, BMul(a.m, b.m), a.e + b.e, FALSE)

F64Div(a, b) ==
  LET s == (a.s + b.s) % 2
  IN  CASE a.k = "nan" \/ b.k = "nan" -> FNaN
        [] a.k = "inf" -> IF b.k = "inf" THEN FNaN ELSE FInf(s)
        [] b.k = "inf" -> FZero(s)
        [] IsZero(b) -> IF IsZero(a) THEN FNaN ELSE FInf(s)
        [] OTHER -> F64FromRat(s, a.m, b.m, a.e - b.e)

\* An operand more than GuardBits binary places below the other only
\* decides the direction of rounding; any non-zero value that far down
\* gives the same sum.
GuardBits == 2 * MantBits + 4

Shrunk(small, big) ==
  IF big.e - small.e > GuardBits
  THEN FNum(small.s, <<1>>, big.e - GuardBits)
  ELSE small

\* (-1)^sa * x + (-1)^sb * y, times 2^e
AddAligned(sa, x, sb, y, e) ==
  LET c == BCmp(x, y)
  IN  IF sa # sb /\ c = 0 THEN FZero(0)
      ELSE F64Round(IF sa = sb \/ c > 0 THEN sa ELSE sb,
                    IF sa = sb THEN BAdd(x, y)
                    ELSE IF c > 0 THEN BSub(x, y) ELSE BSub(y, x),
                    e, FALSE)

AddFrom(a, b, e0) ==
  AddAligned(a.s, BShl(a.m, a.e - e0), b.s, BShl(b.m, b.e - e0), e0)

F64AddFinite(a, b) == AddFrom(a, b, Min(a.e, b.e))

F64Add(a, b) ==
  CASE a.k = "nan" \/ b.k = "nan" -> FNaN
    [] a.k = "inf" -> IF b.k = "inf" /\ b.s # a.s THEN FNaN ELSE a
    [] b.k = "inf" -> b
    [] IsZero(a) /\ IsZero(b) -> FZero(IF a.s = 1 /\ b.s = 1 THEN 1 ELSE 0)
    [] IsZero(a) -> b
    [] IsZero(b) -> a
    [] OTHER -> F64AddFinite(Shrunk(a, b), Shrunk(b, a))

F64Sub(a, b) == F64Add(a, F64Neg(b))

IsPositive(d) == d.k # "nan" /\ d.s = 0 /\ ~IsZero(d)

\* a > b (false when either is NaN)
F64Gt(a, b) ==
  IF a.k = "nan" \/ b.k = "nan" THEN FALSE
  ELSE IF a.k = "inf" /\ b.k = "inf" THEN a.s = 0 /\ b.s = 1
  ELSE IsPositive(F64Sub(a, b))

\* the nearest integer, halves to even (math.RoundToEven)
MathRoundToEven(x) ==
  IF x.k # "num" \/ x.e >= 0 THEN x
  ELSE F64Round(x.s, BShrEven(x.m, 0 - x.e, FALSE), 0, FALSE)

\* math.Round: the nearest integer, halves away from zero
MathRound(x) ==
  IF x.k # "num" \/ x.e >= 0 THEN x
  ELSE LET n == 0 - x.e
           i == BShr(x.m, n)
           r == IF BBit(x.m, n - 1) = 1 THEN BAdd(i, <<1>>) ELSE i
       IN  F64Round(x.s, r, 0, FALSE)

(* ---------------- strings and strconv ---------------------------------- *)
\* A string is a sequence of one-character strings.
DigitChars == <<"0", "1", "2", "3", "4", "5", "6", "7", "8", "9">>

IsDigit(c) == \E d \in 1..10 : DigitChars[d] = c

DigitVal(c) == (CHOOSE d \in 1..10 : DigitChars[d] = c) - 1

DigitsOf(str) == [i \in 1..Len(str) |-> DigitVal(str[i])]

CharsOf(ds) == [i \in 1..Len(ds) |-> DigitChars[ds[i] + 1]]

AllDigits(str) == \A i \in 1..Len(str) : IsDigit(str[i])

\* the first position at or after i whose character fails Cond, or
\* Len(str) + 1
RunEnd(str, i, Cond(_)) ==
  CHOOSE j \in i..(Len(str) + 1) :
    /\ j = Len(str) + 1 \/ ~Cond(str[j])
    /\ \A h \in i..(j - 1) : Cond(str[h])

\* v's magnitude in hundredths, c = 100 * m, rounded ties to even
Hundredths(c, e) ==
  IF e >= 0 THEN BShl(c, e) ELSE BShrEven(c, 0 - e, FALSE)

PadTo3(ds) == IF Len(ds) < 3 THEN Zeros(3 - Len(ds)) \o ds ELSE ds

TwoDecimals(neg, pad) ==
  (IF neg THEN <<"-">> ELSE <<>>)
  \o CharsOf(SubSeq(pad, 1, Len(pad) - 2)) \o <<".">>
  \o CharsOf(SubSeq(pad, Len(pad) - 1, Len(pad)))

\* strconv.FormatFloat(v, 'f', 2, 64): the exact value of v rounded to two
\* decimals, ties to even
FormatFloat2(v) ==
  IF v.k = "nan" THEN <<"N", "a", "N">>
  ELSE IF v.k = "inf"
       THEN (IF v.s = 1 THEN <<"-">> ELSE <<"+">>) \o <<"I", "n", "f">>
  ELSE TwoDecimals(v.s = 1,
                   PadTo3(BToDigits(Hundredths(BMulSmall(v.m, 100), v.e))))

\* strconv.ParseFloat(str, 64) for decimal numerals: [sign] digits [. digits]
\* [e [sign] digits].  (The names inf, infinity and nan, hexadecimal
\* numerals and underscores need characters no modelled input holds.)
\* ok = FALSE is a syntax error (value 0); range = TRUE is ErrRange, with
\* the infinity strconv returns.
MaxDecExp == 310

\* the value of an exponent field; one of more than four digits is beyond
\* every float64
ExpValue(xp) ==
  IF Len(xp) > 4 THEN 10000
  ELSE IF xp = <<>> THEN 0
  ELSE BDivModSmall(BFromDigits(DigitsOf(xp)), Base).r

\* (-1)^neg * mant * 10^dexp as a float64
DecimalValue(neg, mant, dexp) ==
  LET mag == Len(BToDigits(mant)) + dexp
  IN  CASE mant = <<>> -> FZero(neg)
        [] mag > MaxDecExp -> FInf(neg)
        [] mag < 0 - (MaxDecExp + 20) -> FZero(neg)
        [] dexp >= 0 -> F64Round(neg, BMul(mant, BPow10(dexp)), 0, FALSE)
        [] OTHER -> F64FromRat(neg, mant, BPow10(0 - dexp), 0)

Parsed(val) == [ok |-> TRUE, range |-> val.k = "inf", v |-> val]

\* the numeral's parts: integer digits ip, fraction digits fp, exponent
\* digits xp (hasE: an exponent follows), read up to position x1
ReadFloatParts(str, neg, ip, fp, hasE, eneg, xp, x1) ==
  IF Len(ip) + Len(fp) = 0 \/ (hasE /\ xp = <<>>) \/ x1 # Len(str) + 1
  THEN [ok |-> FALSE, range |-> FALSE, v |-> FZero(0)]
  ELSE Parsed(DecimalValue(neg, BFromDigits(DigitsOf(ip \o fp)),
                           (IF eneg THEN 0 - ExpValue(xp) ELSE ExpValue(xp))
                           - Len(fp)))

\* the exponent, from position f1 on; x0 is where its digits would start
ReadFloatExp(str, neg, ip, fp, f1, hasE, x0) ==
  ReadFloatParts(str, neg, ip, fp, hasE,
                 hasE /\ x0 = f1 + 2 /\ str[f1 + 1] = "-",
                 IF hasE THEN SubSeq(str, x0, RunEnd(str, x0, IsDigit) - 1)
                 ELSE <<>>,
                 IF hasE THEN RunEnd(str, x0, IsDigit) ELSE f1)

\* the fraction, whose digits are at f0 .. f1 - 1
ReadFloatFrac(str, neg, ip, f0, f1) ==
  LET hasE == f1 <= Len(str) /\ str[f1] \in {"e", "E"}
      es   == IF hasE /\ f1 + 1 <= Len(str) /\ str[f1 + 1] \in {"+", "-"}
              THEN 1 ELSE 0
  IN  ReadFloatExp(str, neg, ip, SubSeq(str, f0, f1 - 1), f1, hasE,
                   f1 + 1 + es)

\* the integer digits are at i0 .. i1 - 1
ReadFloatInt(str, neg, i0, i1) ==
  LET f0 == IF i1 <= Len(str) /\ str[i1] = "." THEN i1 + 1 ELSE i1
  IN  ReadFloatFrac(str, neg, SubSeq(str, i0, i1 - 1), f0,
                    RunEnd(str, f0, IsDigit))

ReadFloatSigned(str, neg, i0) ==
  ReadFloatInt(str, neg, i0, RunEnd(str, i0, IsDigit))

ParseFloat(str) ==
  ReadFloatSigned(str,
                  IF str # <<>> /\ str[1] = "-" THEN 1 ELSE 0,
                  IF str # <<>> /\ str[1] \in {"+", "-"} THEN 2 ELSE 1)

\* 2^64 - 1 and 2^63, the limits strconv saturates at
MaxUint64 == [i \in 1..5 |-> IF i = 5 THEN 15 ELSE Base - 1]
MinInt64Mag == <<0, 0, 0, 0, 8>>

\* strconv.ParseUint(str, 10, 64): the digits are read left to right; a
\* character that is no digit is a syntax error (value 0), but a value
\* that passes 2^64 - 1 before such a character is reached is a range
\* error (value 2^64 - 1).  err is "", "syntax" or "range".
UintOf(str, j, n) ==
  IF str = <<>> THEN [n |-> <<>>, err |-> "syntax"]
  ELSE IF BCmp(n, MaxUint64) > 0 THEN [n |-> MaxUint64, err |-> "range"]
  ELSE IF j <= Len(str) THEN [n |-> <<>>, err |-> "syntax"]
  ELSE [n |-> n, err |-> ""]

ParseUintTo(str, j) ==
  UintOf(str, j, BFromDigits(DigitsOf(SubSeq(str, 1, j - 1))))

ParseUint(str) == ParseUintTo(str, RunEnd(str, 1, IsDigit))

\* A Go int (64 bits) is a sign and a magnitude.
IntOf(neg, mag) == [neg |-> neg /\ mag # <<>>, mag |-> mag]

Signed(neg, u) ==
  IF u.err = "syntax" THEN [n |-> IntOf(FALSE, <<>>), err |-> "syntax"]
  ELSE IF ~neg /\ BCmp(u.n, MinInt64Mag) >= 0
       THEN [n |-> IntOf(FALSE, BSub(MinInt64Mag, <<1>>)), err |-> "range"]
  ELSE IF neg /\ BCmp(u.n, MinInt64Mag) > 0
       THEN [n |-> IntOf(TRUE, MinInt64Mag), err |-> "range"]
  ELSE [n |-> IntOf(neg, u.n), err |-> ""]

\* strconv.Atoi(str): an optional sign, then ParseUint's digits; out of
\* range it returns the nearest int64
Atoi(str) ==
  Signed(str # <<>> /\ str[1] = "-",
         ParseUint(IF str # <<>> /\ str[1] \in {"+", "-"}
                   THEN SubSeq(str, 2, Len(str)) ELSE str))

MatchAt(str, i, pat) ==
  /\ i + Len(pat) - 1 <= Len(str)
  /\ \A j \in 1..Len(pat) : str[i + j - 1] = pat[j]

RECURSIVE ReplaceFrom(_, _, _, _)
\* str from position i on, with the occurrences of old replaced
ReplaceFrom(str, i, old, new) ==
  IF \E j \in i..Len(str) : MatchAt(str, j, old)
  THEN LET j == CHOOSE h \in i..Len(str) :
                  /\ MatchAt(str, h, old)
                  /\ \A g \in i..(h - 1) : ~MatchAt(str, g, old)
       IN  SubSeq(str, i, j - 1) \o new
           \o ReplaceFrom(str, j + Len(old), old, new)
  ELSE SubSeq(str, i, Len(str))

\* strings.Replace(str, old, new, 1): only the first occurrence
ReplaceFirst(str, old, new) ==
  IF \E j \in 1..Len(str) : MatchAt(str, j, old)
  THEN LET j == CHOOSE h \in 1..Len(str) :
                  /\ MatchAt(str, h, old)
                  /\ \A g \in 1..(h - 1) : ~MatchAt(str, g, old)
       IN  SubSeq(str, 1, j - 1) \o new \o SubSeq(str, j + Len(old), Len(str))
  ELSE str

\* strings.ReplaceAll(str, old, new) for a non-empty old: the occurrences
\* of old, found left to right without overlap, become new
ReplaceAll(str, old, new) == ReplaceFrom(str, 1, old, new)

(* ---------------- github.com/Knetic/govaluate -------------------------- *)
\* evalFormula hands the substituted formula to govaluate.  The library is
\* modelled for the expressions the formulas below can produce: numbers,
\* true/false, names, quoted strings, parentheses, prefix "-", the
\* modifiers + - * / and the comparators > < >= <= == != (no functions,
\* no logical or ternary operators, no bitwise or power operators, no
\* hexadecimal numbers, no dates in string literals).
Letters ==
  {"a", "b", "c", "d", "e", "f", "g", "h", "i", "j", "k", "l", "m", "n",
   "o", "p", "q", "r", "s", "t", "u", "v", "w", "x", "y", "z",
   "A", "B", "C", "D", "E", "F", "G", "H", "I", "J", "K", "L", "M", "N",
   "O", "P", "Q", "R", "S", "T", "U", "V", "W", "X", "Y", "Z"}

IsLetter(c) == c \in Letters
IsSpace(c) == c = " "
IsQuote(c) == c \in {"'", "\""}
IsNumeric(c) == IsDigit(c) \/ c = "."
IsVariableName(c) == IsLetter(c) \/ IsDigit(c) \/ c \in {"_", "."}
IsSymbolChar(c) ==
  ~(IsDigit(c) \/ IsLetter(c) \/ c \in {"(", ")", "[", "]"} \/ IsQuote(c))
  /\ ~IsSpace(c)
NotQuote(c) == ~IsQuote(c)

NoErr == [msg |-> "", text |-> <<>>]
Err(msg, text) == [msg |-> msg, text |-> text]

Tok(kind, text, num) == [kind |-> kind, text |-> text, num |-> num]

PrefixSymbols == {<<"-">>}
ModifierSymbols == {<<"+">>, <<"-">>, <<"*">>, <<"/">>}
ComparatorSymbols ==
  {<<">">>, <<"<">>, <<">", "=">>, <<"<", "=">>, <<"=", "=">>, <<"!", "=">>}

\* lexerStates: the token kinds that may follow a token of each kind
ValidNext(kind) ==
  CASE kind = "UNKNOWN" ->
         {"PREFIX", "NUMERIC", "BOOLEAN", "VARIABLE", "STRING", "CLAUSE"}
    [] kind = "CLAUSE" ->
         {"PREFIX", "NUMERIC", "BOOLEAN", "VARIABLE", "STRING", "CLAUSE",
          "CLAUSE_CLOSE"}
    [] kind = "CLAUSE_CLOSE" ->
         {"COMPARATOR", "MODIFIER", "NUMERIC", "BOOLEAN", "VARIABLE",
          "STRING", "CLAUSE", "CLAUSE_CLOSE"}
    [] kind \in {"NUMERIC", "BOOLEAN", "VARIABLE", "STRING"} ->
         {"MODIFIER", "COMPARATOR", "CLAUSE_CLOSE"}
    [] kind = "MODIFIER" ->
         {"PREFIX", "NUMERIC", "VARIABLE", "STRING", "BOOLEAN", "CLAUSE",
          "CLAUSE_CLOSE"}
    [] kind = "COMPARATOR" ->
         {"PREFIX", "NUMERIC", "BOOLEAN", "VARIABLE", "STRING", "CLAUSE",
          "CLAUSE_CLOSE"}
    [] kind = "PREFIX" ->
         {"NUMERIC", "BOOLEAN", "VARIABLE", "CLAUSE", "CLAUSE_CLOSE"}

IsEOF(kind) ==
  kind \in {"CLAUSE_CLOSE", "NUMERIC", "BOOLEAN", "VARIABLE", "STRING"}

\* readToken at the non-space character str[i], after a token of kind
\* prev: the token read and the position after it, or an error
NumericToken(t, p, j) ==
  IF p.ok
  THEN [err |-> NoErr, tok |-> Tok("NUMERIC", t, p.v), next |-> j]
  ELSE [err |-> Err("Unable to parse numeric value to float64", t),
        tok |-> Tok("UNKNOWN", t, FNaN), next |-> j]

WordToken(t, j) ==
  [err |-> NoErr,
   tok |-> Tok(IF t \in {<<"t", "r", "u", "e">>, <<"f", "a", "l", "s", "e">>}
               THEN "BOOLEAN" ELSE "VARIABLE", t, FNaN),
   next |-> j]

StringToken(str, t, j) ==
  IF j > Len(str)
  THEN [err |-> Err("Unclosed string literal", <<>>),
        tok |-> Tok("UNKNOWN", t, FNaN), next |-> j]
  ELSE [err |-> NoErr, tok |-> Tok("STRING", t, FNaN), next |-> j + 1]

SymbolKind(t, prev) ==
  IF "PREFIX" \in ValidNext(prev) /\ t \in PrefixSymbols THEN "PREFIX"
  ELSE IF t \in ModifierSymbols THEN "MODIFIER"
  ELSE IF t \in ComparatorSymbols THEN "COMPARATOR"
  ELSE "UNKNOWN"

SymbolToken(t, kind, j) ==
  IF kind = "UNKNOWN"
  THEN [err |-> Err("Invalid token", t),
        tok |-> Tok("UNKNOWN", t, FNaN), next |-> j]
  ELSE [err |-> NoErr, tok |-> Tok(kind, t, FNaN), next |-> j]

\* where the characters of the token that starts at str[i] end
TokenEnd(str, i) ==
  CASE IsNumeric(str[i]) -> RunEnd(str, i, IsNumeric)
    [] IsLetter(str[i]) -> RunEnd(str, i, IsVariableName)
    [] IsQuote(str[i]) -> RunEnd(str, i + 1, NotQuote)
    [] str[i] \in {"(", ")"} -> i + 1
    [] OTHER -> RunEnd(str, i, IsSymbolChar)

TokenTo(str, i, j, prev) ==
  LET c == str[i]
      t == SubSeq(str, i, j - 1)
  IN  CASE IsNumeric(c) -> NumericToken(t, ParseFloat(t), j)
        [] IsLetter(c) -> WordToken(t, j)
        [] IsQuote(c) -> StringToken(str, SubSeq(str, i + 1, j - 1), j)
        [] c = "(" -> [err |-> NoErr, tok |-> Tok("CLAUSE", t, FNaN), next |-> j]
        [] c = ")" ->
             [err |-> NoErr, tok |-> Tok("CLAUSE_CLOSE", t, FNaN), next |-> j]
        [] OTHER -> SymbolToken(t, SymbolKind(t, prev), j)

ReadToken(str, i, prev) == TokenTo(str, i, TokenEnd(str, i), prev)

RECURSIVE ParseTokensFrom(_, _, _)

Prepend(tok, rest) == [err |-> rest.err, toks |-> <<tok>> \o rest.toks]

TokensAfter(str, r) ==
  IF r.err # NoErr THEN [err |-> r.err, toks |-> <<>>]
  ELSE Prepend(r.tok, ParseTokensFrom(str, r.next, r.tok.kind))

ParseTokensAt(str, j, prev) ==
  IF j > Len(str) THEN [err |-> NoErr, toks |-> <<>>]
  ELSE TokensAfter(str, ReadToken(str, j, prev))

ParseTokensFrom(str, i, prev) ==
  ParseTokensAt(str, RunEnd(str, i, IsSpace), prev)

Count(toks, kind) == Cardinality({i \in 1..Len(toks) : toks[i].kind = kind})

\* checkBalance
CheckBalance(r) ==
  IF r.err # NoErr THEN r
  ELSE IF Count(r.toks, "CLAUSE") # Count(r.toks, "CLAUSE_CLOSE")
       THEN [err |-> Err("Unbalanced parenthesis", <<>>), toks |-> <<>>]
  ELSE r

\* parseTokens: the tokens of the expression
ParseTokens(str) == CheckBalance(ParseTokensFrom(str, 1, "UNKNOWN"))

KindBefore(toks, i) == IF i = 1 THEN "UNKNOWN" ELSE toks[i - 1].kind

\* checkExpressionSyntax
CheckExpressionSyntax(toks) ==
  IF \E i \in 1..Len(toks) : toks[i].kind \notin ValidNext(KindBefore(toks, i))
  THEN LET i == CHOOSE h \in 1..Len(toks) :
                  /\ toks[h].kind \notin ValidNext(KindBefore(toks, h))
                  /\ \A g \in 1..(h - 1) :
                       toks[g].kind \in ValidNext(KindBefore(toks, g))
       IN  Err("Cannot transition token types", toks[i].text)
  ELSE IF ~IsEOF(KindBefore(toks, Len(toks) + 1))
       THEN Err("Unexpected end of expression", <<>>)
  ELSE NoErr

\* the values an expression evaluates to (Go's interface{} holding a
\* float64, a bool or a string)
VNum(x) == [t |-> "num", num |-> x, b |-> FALSE, str |-> <<>>]
VBool(b) == [t |-> "bool", num |-> FNaN, b |-> b, str |-> <<>>]
VStr(str) == [t |-> "str", num |-> FNaN, b |-> FALSE, str |-> str]

F64Eq(a, b) ==
  /\ a.k # "nan" /\ b.k # "nan"
  /\ a = b \/ (IsZero(a) /\ IsZero(b))

\* The outcome of planning and evaluating tokens i.. : st is "ok", "err"
\* (an evaluation error) or "unmodelled" (outside the modelled subset).
Res(st, err, val, next) == [st |-> st, err |-> err, val |-> val, next |-> next]
Unmodelled == Res("unmodelled", NoErr, VBool(FALSE), 0)

\* a comparator on numbers, from l > r, l < r and l == r
Compare(sym, gt, lt, eq) ==
  CASE sym = <<">">> -> gt
    [] sym = <<"<">> -> lt
    [] sym = <<">", "=">> -> gt \/ eq
    [] sym = <<"<", "=">> -> lt \/ eq
    [] sym = <<"=", "=">> -> eq
    [] sym = <<"!", "=">> -> ~eq

\* the operator stages, with their type checks
ApplyBinary(sym, l, r, next) ==
  LET nums == l.t = "num" /\ r.t = "num"
      bad  == IF l.t # "num" THEN l ELSE r
  IN  IF sym \in {<<"=", "=">>, <<"!", "=">>} /\ ~nums THEN
        Res("ok", NoErr, VBool(IF sym = <<"=", "=">> THEN l = r ELSE l # r), next)
      ELSE IF sym \in ComparatorSymbols THEN
        IF nums THEN
          Res("ok", NoErr,
              VBool(Compare(sym, F64Gt(l.num, r.num), F64Gt(r.num, l.num),
                            F64Eq(l.num, r.num))),
              next)
        ELSE IF l.t = "str" /\ r.t = "str" THEN Unmodelled
        ELSE Res("err", Err("Value cannot be used with the comparator", sym),
                 bad, next)
      ELSE IF sym = <<"+">> /\ (l.t = "str" \/ r.t = "str") THEN
        IF l.t = "str" /\ r.t = "str"
        THEN Res("ok", NoErr, VStr(l.str \o r.str), next)
        ELSE Unmodelled
      ELSE IF ~nums THEN
        Res("err", Err("Value cannot be used with the modifier", sym), bad, next)
      ELSE Res("ok", NoErr,
               VNum(CASE sym = <<"+">> -> F64Add(l.num, r.num)
                      [] sym = <<"-">> -> F64Sub(l.num, r.num)
                      [] sym = <<"*">> -> F64Mul(l.num, r.num)
                      [] sym = <<"/">> -> F64Div(l.num, r.num)),
               next)

KindAt(toks, i) == IF i <= Len(toks) THEN toks[i].kind ELSE "EOF"
TextAt(toks, i) == IF i <= Len(toks) THEN toks[i].text ELSE <<>>

\* The planner's precedence levels, from planComparator down to planValue
Below(level) ==
  CASE level = "comparator" -> "additive"
    [] level = "additive" -> "multiplicative"
    [] level = "multiplicative" -> "value"

\* an operator of the level stands at token i
Mine(toks, i, level) ==
  CASE level = "comparator" -> KindAt(toks, i) = "COMPARATOR"
    [] level = "additive" ->
         KindAt(toks, i) = "MODIFIER" /\ TextAt(toks, i) \in {<<"+">>, <<"-">>}
    [] level = "multiplicative" ->
         KindAt(toks, i) = "MODIFIER" /\ TextAt(toks, i) \in {<<"*">>, <<"/">>}

\* a prefix operator applied to the outcome x
Negated(sym, x) ==
  IF x.st # "ok" THEN x
  ELSE IF x.val.t # "num"
       THEN Res("err", Err("Value cannot be used with the prefix", sym),
                x.val, x.next)
  ELSE Res("ok", NoErr, VNum(F64Neg(x.val.num)), x.next)

\* a parenthesised clause with the outcome x
Closed(toks, x) ==
  IF x.st = "unmodelled" \/ KindAt(toks, x.next) # "CLAUSE_CLOSE"
  THEN Unmodelled
  ELSE [x EXCEPT !.next = x.next + 1]

\* left sym right: the left operand is evaluated first, and an error ends
\* the evaluation
Combine(sym, left, right) ==
  IF right.st = "unmodelled" THEN Unmodelled
  ELSE IF left.st = "err" THEN [left EXCEPT !.next = right.next]
  ELSE IF right.st = "err" THEN right
  ELSE ApplyBinary(sym, left.val, right.val, right.next)

RECURSIVE Plan(_, _, _), PlanRest(_, _, _)

\* planComparator, planAdditive, planMultiplicative and planValue with the
\* evaluation of what they plan, from token i on
Plan(toks, i, level) ==
  IF level # "value" THEN PlanRest(toks, Plan(toks, i, Below(level)), level)
  ELSE LET kind == KindAt(toks, i)
       IN  CASE kind = "NUMERIC" -> Res("ok", NoErr, VNum(toks[i].num), i + 1)
             [] kind = "BOOLEAN" ->
                  Res("ok", NoErr, VBool(toks[i].text = <<"t", "r", "u", "e">>),
                      i + 1)
             [] kind = "STRING" -> Res("ok", NoErr, VStr(toks[i].text), i + 1)
             [] kind = "VARIABLE" ->
                  Res("err", Err("No parameter found", toks[i].text),
                      VBool(FALSE), i + 1)
             [] kind = "PREFIX" ->
                  Negated(toks[i].text, Plan(toks, i + 1, "value"))
             [] kind = "CLAUSE" -> Closed(toks, Plan(toks, i + 1, "comparator"))
             [] OTHER -> Unmodelled

\* the operators of one precedence level, applied left to right: left is
\* the outcome so far, the next operand is planned one level down
PlanRest(toks, left, level) ==
  IF left.st = "unmodelled" \/ ~Mine(toks, left.next, level) THEN left
  ELSE PlanRest(toks,
                Combine(TextAt(toks, left.next), left,
                        Plan(toks, left.next + 1, Below(level))),
                level)

PlanComparator(toks, i) == Plan(toks, i, "comparator")

\* the planned expression has to take every token
WholeExpression(toks, r) ==
  IF r.st = "unmodelled" \/ r.next # Len(toks) + 1 THEN Unmodelled ELSE r

PlanTokens(toks, syntax) ==
  IF syntax # NoErr THEN Res("err", syntax, VBool(FALSE), 0)
  ELSE WholeExpression(toks, PlanComparator(toks, 1))

Evaluate(lexed) ==
  IF lexed.err # NoErr THEN Res("err", lexed.err, VBool(FALSE), 0)
  ELSE PlanTokens(lexed.toks, CheckExpressionSyntax(lexed.toks))

\* NewEvaluableExpression(str) followed by Evaluate(nil): the value, or
\* the error of either step
Govaluate(str) == Evaluate(ParseTokens(str))

(* ---------------- utils.go --------------------------------------------- *)
\* What a Go function call comes to: k = "ret" with the returned values
\* (err = NoErr is a nil error), k = "panic" when the call panics, and
\* k = "unmodelled" when the formula leaves the modelled part of govaluate.
Ret(v, err) == [k |-> "ret", v |-> v, err |-> err]
Panic == [k |-> "panic", v |-> FZero(0),
          err |-> Err("interface conversion: interface {} is not float64", <<>>)]
Beyond == [k |-> "unmodelled", v |-> FZero(0), err |-> NoErr]

F100 == F64FromNat(<<100>>)

RoundTwo(v) == F64Div(MathRound(F64Mul(v, F100)), F100)

\* the type assertion v.(float64) and the rounding of evalFormula's last
\* line: the assertion panics when the value is a bool or a string
AssertFloat64(r) ==
  IF r.st = "unmodelled" THEN Beyond
  ELSE IF r.st = "err" THEN Ret(FZero(0), r.err)
  ELSE IF r.val.t # "num" THEN Panic
  ELSE Ret(RoundTwo(r.val.num), NoErr)

evalFormula(exprStr) == AssertFloat64(Govaluate(exprStr))

TokenValue == <<"#", "V", "A", "L", "U", "E">>
TokenTotal == <<"#", "T", "O", "T", "A", "L", "_", "V", "A", "L", "U", "E">>

\* the two strings.ReplaceAll steps of applyFormula
Substitute(formula, value, total) ==
  ReplaceAll(ReplaceAll(formula, TokenValue, FormatFloat2(value)),
             TokenTotal, FormatFloat2(total))

applyFormula(formula, value, total) ==
  evalFormula(Substitute(formula, value, total))

\* the last error of errs instead of the first
lastErr(errs) ==
  IF \A i \in 1..Len(errs) : errs[i] = NoErr THEN NoErr
  ELSE errs[CHOOSE i \in 1..Len(errs) :
              errs[i] # NoErr /\ \A j \in (i + 1)..Len(errs) : errs[j] = NoErr]

firstErr(errs) ==
  IF \A i \in 1..Len(errs) : errs[i] = NoErr THEN NoErr
  ELSE errs[CHOOSE i \in 1..Len(errs) :
              errs[i] # NoErr /\ \A j \in 1..(i - 1) : errs[j] = NoErr]

\* A Metrics value with its MetricsConfig
Metric(kind, unit, formula) ==
  [Metrics |-> kind, BaseUnit |-> unit,
   MetricsConfig |-> [ShortCode |-> unit, Description |-> kind,
                      Formula |-> formula]]

(* ---------------- the inputs of the model ------------------------------ *)
\* the formula of the spec's proportional-consistency example
FormulaPercent ==
  <<"(", "#", "V", "A", "L", "U", "E", "/", "#", "T", "O", "T", "A", "L",
    "_", "V", "A", "L", "U", "E", ")", "*", "1", "0", "0">>

\* the spec's rounding example
FormulaHalfCent ==
  <<"#", "V", "A", "L", "U", "E", "+", "0", ".", "0", "0", "5">>

\* the spec's bad-formula example
FormulaDangling ==
  <<"#", "V", "A", "L", "U", "E", " ", "+">>

\* a comparison: its value is a bool
FormulaCompare ==
  <<"#", "V", "A", "L", "U", "E", " ", ">", " ", "0">>

\* a string literal
FormulaText ==
  <<"'", "G", "i", "B", "'">>

\* a name no parameter resolves
FormulaName ==
  <<"#", "V", "A", "L", "U", "E", " ", "*", " ", "k">>

\* after substitution, a numeral with two points
FormulaTwoDots ==
  <<"#", "V", "A", "L", "U", "E", ".", "5">>

\* no token; 12.5 hundredths
FormulaEighth ==
  <<"0", ".", "1", "2", "5">>

\* no token; -12.5 hundredths
FormulaMinusEighth ==
  <<"-", "0", ".", "1", "2", "5">>

\* a token more than once
FormulaTwice ==
  <<"#", "V", "A", "L", "U", "E", " ", "+", " ", "#", "V", "A", "L", "U",
    "E", " ", "-", " ", "#", "T", "O", "T", "A", "L", "_", "V", "A", "L",
    "U", "E">>

\* bytes to MiB
FormulaMiB ==
  <<"#", "V", "A", "L", "U", "E", " ", "/", " ", "1", "0", "4", "8", "5",
    "7", "6">>

Formulas ==
  {FormulaPercent, FormulaHalfCent, FormulaDangling, FormulaCompare,
   FormulaText, FormulaName, FormulaTwoDots, FormulaEighth,
   FormulaMinusEighth, FormulaTwice, FormulaMiB, <<>>}

\* the definitions a registry is made of
MetricPool ==
  {Metric("CPU", "Percentage", FormulaPercent),
   Metric("CPU", "Percentage", FormulaHalfCent),
   Metric("CPU", "Cores", FormulaEighth),
   Metric("Memory", "GiB", FormulaPercent),
   Metric("Memory", "Bytes", FormulaMiB),
   Metric("Memory", "MiB", <<>>),
   Metric("Memory", "MiB", FormulaTwoDots),
   Metric("Memory", "KiB", FormulaCompare),
   Metric("Disk", "GiB", FormulaMiB)}

\* A registry ([]Metrics) holds at most MaxMetrics definitions.
MaxMetrics == 3

Configs == UNION {[1..n -> MetricPool] : n \in 0..MaxMetrics}

\* usedCores and totalCores: 0, 0.125, 1 and 4
\* (2^n as a float64 has the mantissa 2^52, whose limbs are <<0, 0, 0, 2^7>>)
F64Pow2(n) == FNum(0, <<0, 0, 0, 128>>, n - (MantBits - 1))

CoreCounts == {FZero(0), F64Pow2(0 - 3), F64Pow2(0), F64Pow2(2)}

\* used, total and free (uint64): 0, 512, 1024 and 517886793190071
LargeCount == BFromDigits(<<5, 1, 7, 8, 8, 6, 7, 9, 3, 1, 9, 0, 0, 7, 1>>)

ByteCounts == {<<>>, <<512>>, <<1024>>, LargeCount}

\* The <<used, total, free>> the capacity converters are called with: an
\* empty device, a half and a wholly used one, free not reported, used above
\* total, and counts beyond 2^53 / 100.
ByteTriples ==
  {<<<<>>, <<>>, <<>>>>,
   <<<<512>>, <<1024>>, <<512>>>>,
   <<<<512>>, <<1024>>, <<>>>>,
   <<<<1024>>, <<1024>>, <<>>>>,
   <<<<>>, <<1024>>, <<1024>>>>,
   <<<<1024>>, <<512>>, <<>>>>,
   <<LargeCount, LargeCount, <<>>>>,
   <<LargeCount, <<>>, <<>>>>,
   <<<<>>, LargeCount, LargeCount>>,
   <<<<512>>, LargeCount, <<1024>>>>}

\* float64(x) for the byte counts
Float64Of == [x \in ByteCounts |-> F64FromNat(x)]

\* The strings handed to the coercions: every string of at most MaxStrLen
\* characters of CoerceChars, and the numerals at the limits of the types.
MaxStrLen == 3

CoerceChars == {"1", "9", ".", "a", "-"}

Uint64Limit ==
  <<"1", "8", "4", "4", "6", "7", "4", "4", "0", "7", "3", "7", "0", "9",
    "5", "5", "1", "6", "1">>

Int64Limit ==
  <<"9", "2", "2", "3", "3", "7", "2", "0", "3", "6", "8", "5", "4", "7",
    "7", "5", "8", "0">>

CoerceStrings ==
  UNION {[1..n -> CoerceChars] : n \in 0..MaxStrLen}
  \cup {<<"1", "2", "3", ".", "9", "9">>, <<"a", "b", "c">>, <<"4", "2">>,
        <<"3", ".", "1", "4">>, <<"1", "e", "4", "0", "0">>,
        Uint64Limit \o <<"5">>, Uint64Limit \o <<"6">>,
        Uint64Limit \o <<"6", "a">>, Uint64Limit \o <<"6", ".", "5">>,
        Int64Limit \o <<"7">>, Int64Limit \o <<"8">>,
        <<"-">> \o Int64Limit \o <<"8">>, <<"-">> \o Int64Limit \o <<"9">>}

\* The operands applyFormula is called with, and its value for each call
\* the converters can make, evaluated once.
OperandPairs ==
  {<<v, t>> : v \in CoreCounts, t \in CoreCounts}
  \cup {<<Float64Of[x], Float64Of[y]>> : x \in ByteCounts, y \in ByteCounts}

ApplyCalls == {<<f, p[1], p[2]>> : f \in Formulas, p \in OperandPairs}

applyFormulaTable == [c \in ApplyCalls |-> applyFormula(c[1], c[2], c[3])]

\* RoundTwo of every number the capacity converter rounds, evaluated once
RoundTwoArgs ==
  {r.v : r \in {applyFormulaTable[c] : c \in ApplyCalls}
              \cup {Ret(Float64Of[x], NoErr) : x \in ByteCounts}}

RoundTwoTable == [v \in RoundTwoArgs |-> RoundTwo(v)]

(* ---------------- utils.go: the exported functions --------------------- *)
\* StringToUint64: the part before the first "." goes to ParseUint, whose
\* error is dropped
StringToUint64(str) ==
  LET j == RunEnd(str, 1, LAMBDA c : c # ".")
  IN  ParseUint(SubSeq(str, 1, j - 1)).n

ConvertStringToInt(str) == Atoi(str).n

StringToFloat(str) == ParseFloat(str).v

\* the test without the unit
IsCPU(m) == m.Metrics = "CPU"

IsCPUPercentage(m) == m.Metrics = "CPU" /\ m.BaseUnit = "Percentage"

\* the index of the last CPU percentage definition of config, or 0
LastCPU(config) ==
  IF \E i \in 1..Len(config) : IsCPUPercentage(config[i])
  THEN CHOOSE i \in 1..Len(config) :
         /\ IsCPUPercentage(config[i])
         /\ \A j \in (i + 1)..Len(config) : ~IsCPUPercentage(config[j])
  ELSE 0

\* the index of the first CPU percentage definition of config, or 0
FirstCPU(config) ==
  IF \E i \in 1..Len(config) : IsCPUPercentage(config[i])
  THEN CHOOSE i \in 1..Len(config) :
         /\ IsCPUPercentage(config[i])
         /\ \A j \in 1..(i - 1) : ~IsCPUPercentage(config[j])
  ELSE 0

ValueConvertPercentage(config, usedCores, totalCores) ==
  LET i == FirstCPU(config)
  IN  IF i # 0
      THEN applyFormulaTable[<<config[i].MetricsConfig.Formula,
                               usedCores, totalCores>>]
      ELSE Ret(FZero(0), Err("CPU metrics configuration not found", <<>>))

\* What MemoryValueConvert and DiskValueConvert come to: the five returned
\* values, and evals, the applyFormula calls made, in order.
Ret5(u, t, f, unit, err, evals) ==
  [k |-> "ret", u |-> u, t |-> t, f |-> f, unit |-> unit, err |-> err,
   evals |-> evals]
Stop5(k, evals) ==
  [k |-> k, u |-> FZero(0), t |-> FZero(0), f |-> FZero(0), unit |-> "",
   err |-> NoErr, evals |-> evals]

\* the test without the condition on the unit
ConvertsAnyUnit(m, metric) ==
  /\ m.Metrics = metric
  /\ m.MetricsConfig.Formula # <<>>

\* the test of the loop of genericMemoryConvert
Converts(m, metric) ==
  /\ m.Metrics = metric
  /\ m.MetricsConfig.Formula # <<>>
  /\ m.BaseUnit # "Bytes"

\* the index of the first definition of config that Converts, or 0
FirstConverting(config, metric) ==
  IF \E i \in 1..Len(config) : Converts(config[i], metric)
  THEN CHOOSE i \in 1..Len(config) :
         /\ Converts(config[i], metric)
         /\ \A j \in 1..(i - 1) : ~Converts(config[j], metric)
  ELSE 0

\* the operands with used and free exchanged
OperandsFreeFirst(used, total, free) ==
  <<<<free, total>>, <<total, total>>, <<used, total>>>>

\* the (value, total) operands of the three applyFormula calls
Operands(used, total, free) == <<<<used, total>>, <<total, total>>, <<free, total>>>>

\* RoundTwo of each of the three numbers returned
RoundTwoEach(vs) == [j \in 1..3 |-> RoundTwoTable[vs[j]]]

Rounded5(vs, unit, evals) == Ret5(vs[1], vs[2], vs[3], unit, NoErr, evals)

\* the fallback: the values stay in bytes
InBytes(used, total, free) ==
  Rounded5(RoundTwoEach(<<used, total, free>>), "Bytes", <<>>)

\* the three applyFormula calls, and what they come to
EvalLog(fm, ops) ==
  [j \in 1..3 |-> [formula |-> fm, value |-> ops[j][1], total |-> ops[j][2]]]

Evaluations(fm, ops) ==
  [j \in 1..3 |-> applyFormulaTable[<<fm, ops[j][1], ops[j][2]>>]]

\* the return statements after firstErr
ReturnFor(m, r, err, evals) ==
  IF err # NoErr
  THEN Ret5(FZero(0), FZero(0), FZero(0), m.BaseUnit, err, evals)
  ELSE Rounded5(RoundTwoEach(<<r[1].v, r[2].v, r[3].v>>), m.BaseUnit, evals)

\* the body of the loop for the definition m that Converts; a call that
\* does not return ends the function where it stands
ConvertWith(m, r, evals) ==
  IF \E j \in 1..3 : r[j].k # "ret"
  THEN LET j == CHOOSE h \in 1..3 :
                  r[h].k # "ret" /\ \A g \in 1..(h - 1) : r[g].k = "ret"
       IN  Stop5(r[j].k, SubSeq(evals, 1, j))
  ELSE ReturnFor(m, r, firstErr(<<r[1].err, r[2].err, r[3].err>>), evals)

ConvertAt(config, i, fs) ==
  IF i = 0 THEN InBytes(fs[1], fs[2], fs[3])
  ELSE ConvertWith(config[i],
                   Evaluations(config[i].MetricsConfig.Formula,
                               Operands(fs[1], fs[2], fs[3])),
                   EvalLog(config[i].MetricsConfig.Formula,
                           Operands(fs[1], fs[2], fs[3])))

genericMemoryConvert(config, metric, used, total, free) ==
  ConvertAt(config, FirstConverting(config, metric),
            [j \in 1..3 |-> Float64Of[<<used, total, free>>[j]]])

MemoryValueConvert(config, used, total, free) ==
  genericMemoryConvert(config, "Memory", used, total, free)

DiskValueConvert(config, used, total, free) ==
  genericMemoryConvert(config, "Disk", used, total, free)

(* ---------------- the calls -------------------------------------------- *)
\* pc is "idle" between calls and "done" when a call has come to its end;
\* call is the function called with its arguments, result what the call
\* came to, and substituted the formula that applyFormula hands to
\* evalFormula.
VARIABLES pc, call, result, substituted

vars == <<pc, call, result, substituted>>

NoCall == [fn |-> "", config |-> <<>>, args |-> <<>>]

Init ==
  /\ pc = "idle"
  /\ call = NoCall
  /\ result = <<>>
  /\ substituted = <<>>

Done(fn, config, args, out) ==
  /\ pc' = "done"
  /\ call' = [fn |-> fn, config |-> config, args |-> args]
  /\ result' = out

CallApplyFormula ==
  /\ pc = "idle"
  /\ \E c \in ApplyCalls :
      /\ Done("applyFormula", <<>>, c, applyFormulaTable[c])
      /\ substituted' = Substitute(c[1], c[2], c[3])

CallValueConvertPercentage ==
  /\ pc = "idle"
  /\ \E config \in Configs, usedCores \in CoreCounts, totalCores \in CoreCounts :
      /\ Done("ValueConvertPercentage", config, <<usedCores, totalCores>>,
              ValueConvertPercentage(config, usedCores, totalCores))
      /\ substituted' = <<>>

CallMemoryValueConvert ==
  /\ pc = "idle"
  /\ \E config \in Configs, b \in ByteTriples :
      /\ Done("MemoryValueConvert", config, b, MemoryValueConvert(config, b[1], b[2], b[3]))
      /\ substituted' = <<>>

CallDiskValueConvert ==
  /\ pc = "idle"
  /\ \E config \in Configs, b \in ByteTriples :
      /\ Done("DiskValueConvert", config, b, DiskValueConvert(config, b[1], b[2], b[3]))
      /\ substituted' = <<>>

CallStringToUint64 ==
  /\ pc = "idle"
  /\ \E str \in CoerceStrings :
      /\ Done("StringToUint64", <<>>, <<str>>, StringToUint64(str))
      /\ substituted' = <<>>

CallConvertStringToInt ==
  /\ pc = "idle"
  /\ \E str \in CoerceStrings :
      /\ Done("ConvertStringToInt", <<>>, <<str>>, ConvertStringToInt(str))
      /\ substituted' = <<>>

CallStringToFloat ==
  /\ pc = "idle"
  /\ \E str \in CoerceStrings :
      /\ Done("StringToFloat", <<>>, <<str>>, StringToFloat(str))
      /\ substituted' = <<>>

Return ==
  /\ pc = "done"
  /\ pc' = "idle"
  /\ call' = NoCall
  /\ result' = <<>>
  /\ substituted' = <<>>

Next ==
  \/ CallApplyFormula
  \/ CallValueConvertPercentage
  \/ CallMemoryValueConvert
  \/ CallDiskValueConvert
  \/ CallStringToUint64
  \/ CallConvertStringToInt
  \/ CallStringToFloat
  \/ Return

Spec == Init /\ [][Next]_vars

(* ---------------- the claims -------------------------------------------- *)
\* A call of fn has come to its end.
Returned(fn) == pc = "done" /\ call.fn = fn

Capacity == pc = "done" /\ call.fn \in {"MemoryValueConvert", "DiskValueConvert"}

KindOf(fn) == IF fn = "MemoryValueConvert" THEN "Memory" ELSE "Disk"

CPUPercentage(m) == m.Metrics = "CPU" /\ m.BaseUnit = "Percentage"

\* the i-th definition is the first CPU percentage definition of config
FirstCPUPercentageAt(config, i) ==
  /\ CPUPercentage(config[i])
  /\ \A j \in 1..(i - 1) : ~CPUPercentage(config[j])

Qualifies(m, kind) ==
  m.Metrics = kind /\ m.MetricsConfig.Formula # <<>> /\ m.BaseUnit # "Bytes"

\* the i-th definition is the first of config that qualifies for kind
FirstQualifyingAt(config, kind, i) ==
  /\ Qualifies(config[i], kind)
  /\ \A j \in 1..(i - 1) : ~Qualifies(config[j], kind)

\* C1: with totalCores # 0, ValueConvertPercentage comes to exactly what
\* applyFormula comes to for the formula of the first definition, in
\* registry order, with Metrics "CPU" and BaseUnit "Percentage": the
\* definitions before it that fail the test are skipped, and no definition
\* after it has any influence.
C1_FirstMatch ==
  (Returned("ValueConvertPercentage") /\ ~IsZero(call.args[2])) =>
    \A i \in 1..Len(call.config) :
      FirstCPUPercentageAt(call.config, i) =>
        result = applyFormulaTable[<<call.config[i].MetricsConfig.Formula,
                                     call.args[1], call.args[2]>>]

\* a CPU definition of another unit is skipped, the first percentage
\* definition gives 1/4 = 25 %, and the second one (which would give 1.0)
\* is not used
C1_Witness ==
  /\ Returned("ValueConvertPercentage")
  /\ call.config = <<Metric("CPU", "Cores", FormulaEighth),
                     Metric("CPU", "Percentage", FormulaPercent),
                     Metric("CPU", "Percentage", FormulaHalfCent)>>
  /\ call.args = <<F64Pow2(0), F64Pow2(2)>>
  /\ result = Ret(F64FromNat(<<25>>), NoErr)

\* C2: a registry without a definition of Metrics "CPU" and BaseUnit
\* "Percentage" (the empty registry, or one whose CPU definitions have
\* another unit) makes ValueConvertPercentage return 0 with the error
\* "CPU metrics configuration not found", never a number of some formula.
C2_NotFound ==
  (/\ Returned("ValueConvertPercentage")
   /\ \A i \in 1..Len(call.config) : ~CPUPercentage(call.config[i])) =>
    result = Ret(FZero(0), Err("CPU metrics configuration not found", <<>>))

C2_Witness ==
  /\ Returned("ValueConvertPercentage")
  /\ call.config = <<Metric("CPU", "Cores", FormulaEighth),
                     Metric("Memory", "GiB", FormulaPercent)>>
  /\ call.args = <<F64Pow2(0), F64Pow2(2)>>
  /\ result.err.msg = "CPU metrics configuration not found"
  /\ result.v = FZero(0)

\* C3: MemoryValueConvert (kind "Memory") and DiskValueConvert (kind
\* "Disk") use the first definition, in registry order, whose Metrics is
\* the kind, whose formula is not empty and whose BaseUnit is not "Bytes":
\* every evaluation is of its formula, the call comes to what it comes to
\* for the registry of that definition alone, and the unit returned is its
\* BaseUnit.
C3_Selection ==
  Capacity =>
    \A i \in 1..Len(call.config) :
      FirstQualifyingAt(call.config, KindOf(call.fn), i) =>
        /\ result.evals # <<>>
        /\ \A j \in 1..Len(result.evals) :
             result.evals[j].formula = call.config[i].MetricsConfig.Formula
        /\ result = genericMemoryConvert(<<call.config[i]>>, KindOf(call.fn),
                                         call.args[1], call.args[2],
                                         call.args[3])
        /\ result.k = "ret" => result.unit = call.config[i].BaseUnit

\* a "Bytes" definition and one with an empty formula come first and are
\* skipped; the third definition converts
C3_Witness ==
  /\ Returned("MemoryValueConvert")
  /\ call.config = <<Metric("Memory", "Bytes", FormulaMiB),
                     Metric("Memory", "MiB", <<>>),
                     Metric("Memory", "GiB", FormulaPercent)>>
  /\ call.args = <<<<1024>>, <<1024>>, <<>>>>
  /\ result.k = "ret"
  /\ result.unit = "GiB"
  /\ result.u = F64FromNat(<<100>>)

\* C4, as the spec states it: when no definition qualifies for the kind,
\* the call returns used, total and free unchanged as numbers, the unit
\* "Bytes" and no error.
C4_IdentityFallback ==
  (/\ Capacity
   /\ \A i \in 1..Len(call.config) :
        ~Qualifies(call.config[i], KindOf(call.fn))) =>
    /\ result.k = "ret"
    /\ result.err = NoErr
    /\ result.unit = "Bytes"
    /\ result.u = Float64Of[call.args[1]]
    /\ result.t = Float64Of[call.args[2]]
    /\ result.f = Float64Of[call.args[3]]

\* C5: with a definition selected, its formula is evaluated three times,
\* for (value, total) = (used, total), (total, total) and (free, total),
\* and the three results are returned in the order used, total, free.
\* With the formula (#VALUE/#TOTAL_VALUE)*100 the call on 512, 1024, 512
\* returns 50, 100, 50 and the definition's unit, and the total returned
\* is 100 for every total # 0.
C5_ThreeEvaluations ==
  Capacity =>
    \A i \in 1..Len(call.config) :
      FirstQualifyingAt(call.config, KindOf(call.fn), i) =>
        LET fm   == call.config[i].MetricsConfig.Formula
            used == Float64Of[call.args[1]]
            tot  == Float64Of[call.args[2]]
            free == Float64Of[call.args[3]]
            want == <<[formula |-> fm, value |-> used, total |-> tot],
                      [formula |-> fm, value |-> tot, total |-> tot],
                      [formula |-> fm, value |-> free, total |-> tot]>>
        IN  /\ result.evals = SubSeq(want, 1, Len(result.evals))
            /\ result.k = "ret" => result.evals = want
            /\ (result.k = "ret" /\ result.err = NoErr) =>
                 /\ result.u = RoundTwoTable[applyFormulaTable[<<fm, used, tot>>].v]
                 /\ result.t = RoundTwoTable[applyFormulaTable[<<fm, tot, tot>>].v]
                 /\ result.f = RoundTwoTable[applyFormulaTable[<<fm, free, tot>>].v]
            /\ (fm = FormulaPercent /\ call.args[2] # <<>>) =>
                 /\ result.k = "ret" /\ result.err = NoErr
                 /\ result.t = F64FromNat(<<100>>)
            /\ (fm = FormulaPercent /\ call.args = <<<<512>>, <<1024>>, <<512>>>>) =>
                 /\ result.u = F64FromNat(<<50>>)
                 /\ result.f = F64FromNat(<<50>>)
                 /\ result.unit = call.config[i].BaseUnit

C5_Witness ==
  /\ Returned("MemoryValueConvert")
  /\ call.config = <<Metric("Memory", "GiB", FormulaPercent)>>
  /\ call.args = <<<<512>>, <<1024>>, <<512>>>>
  /\ Len(result.evals) = 3
  /\ result.evals[3].value = F64FromNat(<<512>>)
  /\ result.evals[3].total = F64FromNat(<<1024>>)
  /\ result.u = F64FromNat(<<50>>)
  /\ result.t = F64FromNat(<<100>>)
  /\ result.f = F64FromNat(<<50>>)
  /\ result.unit = "GiB"

\* what the three evaluations of the selected formula come to
ThreeResults(fm, args) ==
  <<applyFormulaTable[<<fm, Float64Of[args[1]], Float64Of[args[2]]>>],
    applyFormulaTable[<<fm, Float64Of[args[2]], Float64Of[args[2]]>>],
    applyFormulaTable[<<fm, Float64Of[args[3]], Float64Of[args[2]]>>]>>

\* the j-th of the three evaluations fails and none before it does
FirstFailureAt(r, j) ==
  /\ \A h \in 1..3 : r[h].k = "ret"
  /\ r[j].err # NoErr
  /\ \A h \in 1..(j - 1) : r[h].err = NoErr

\* C6 (amended): when one of the three evaluations returns an error, the
\* call returns the first error in the order used, total, free, and the
\* three numbers returned are 0; the unit returned is the selected
\* definition's BaseUnit.
C6_FirstError ==
  Capacity =>
    \A i \in 1..Len(call.config), j \in 1..3 :
      (/\ FirstQualifyingAt(call.config, KindOf(call.fn), i)
       /\ FirstFailureAt(ThreeResults(call.config[i].MetricsConfig.Formula,
                                      call.args), j)) =>
        /\ result.k = "ret"
        /\ result.err = ThreeResults(call.config[i].MetricsConfig.Formula,
                                     call.args)[j].err
        /\ result.u = FZero(0) /\ result.t = FZero(0) /\ result.f = FZero(0)
        /\ result.unit = call.config[i].BaseUnit

\* the three evaluations fail on 512.00.5, 1024.00.5 and 0.00.5: the error
\* returned is the one of used
C6_Witness ==
  /\ Returned("MemoryValueConvert")
  /\ call.config = <<Metric("Memory", "MiB", FormulaTwoDots)>>
  /\ call.args = <<<<512>>, <<1024>>, <<>>>>
  /\ result.err = Err("Unable to parse numeric value to float64",
                      <<"5", "1", "2", ".", "0", "0", ".", "5">>)
  /\ result.u = FZero(0)
  /\ result.unit = "MiB"

\* C6, as the spec states it: with the error every returned value is a
\* zero value, the unit label included.
C6_AllZeroValues ==
  Capacity =>
    \A i \in 1..Len(call.config), j \in 1..3 :
      (/\ FirstQualifyingAt(call.config, KindOf(call.fn), i)
       /\ FirstFailureAt(ThreeResults(call.config[i].MetricsConfig.Formula,
                                      call.args), j)) =>
        /\ result.k = "ret"
        /\ result.err # NoErr
        /\ result.u = FZero(0) /\ result.t = FZero(0) /\ result.f = FZero(0)
        /\ result.unit = ""

\* C7, as the spec states it: applyFormula returns an error, and neither
\* panics nor returns a number, for a formula that is syntactically
\* invalid (#VALUE +), that needs a name no parameter resolves
\* (#VALUE * k), or whose value is not a number (#VALUE > 0, 'GiB').
C7_ErrorNotPanic ==
  (/\ Returned("applyFormula")
   /\ call.args[1] \in {FormulaDangling, FormulaName, FormulaCompare,
                        FormulaText}) =>
    result.k = "ret" /\ result.err # NoErr

\* floor(|x| + 1/2) with the sign of x, for a finite x: the nearest
\* integer, halves away from zero
HalfAwayFromZero(x) ==
  IF x.e >= 0 THEN x
  ELSE F64Round(x.s, BShr(BAdd(x.m, BShl(<<1>>, 0 - x.e - 1)), 0 - x.e),
                0, FALSE)

\* C8: the number an expression evaluates to is rounded once, after the
\* evaluation, to two decimals with halves away from zero
\* (round(v * 100) / 100): #VALUE+0.005 with value 1 gives 1.0, 0.125
\* gives 0.13 and -0.125 gives -0.13.
C8_RoundOnce ==
  Returned("applyFormula") =>
    LET g == Govaluate(substituted)
    IN  /\ (g.st = "ok" /\ g.val.t = "num" /\ g.val.num.k = "num") =>
             result = Ret(F64Div(HalfAwayFromZero(F64Mul(g.val.num, F100)),
                                 F100), NoErr)
        /\ (call.args[1] = FormulaHalfCent /\ call.args[2] = F64Pow2(0)) =>
             result = Ret(F64Pow2(0), NoErr)
        /\ call.args[1] = FormulaEighth =>
             result = Ret(F64FromRat(0, <<13>>, <<100>>, 0), NoErr)
        /\ call.args[1] = FormulaMinusEighth =>
             result = Ret(F64FromRat(1, <<13>>, <<100>>, 0), NoErr)

C8_Witness ==
  /\ Returned("applyFormula")
  /\ call.args = <<FormulaHalfCent, F64Pow2(0), F64Pow2(2)>>
  /\ substituted = <<"1", ".", "0", "0", "+", "0", ".", "0", "0", "5">>
  /\ result = Ret(F64Pow2(0), NoErr)

HasToken(str) ==
  \E i \in 1..Len(str) : MatchAt(str, i, TokenValue) \/ MatchAt(str, i, TokenTotal)

RECURSIVE Replaced(_, _, _, _)
\* str from position i on, read left to right, with vtxt for each #VALUE
\* and ttxt for each #TOTAL_VALUE
Replaced(str, i, vtxt, ttxt) ==
  IF i > Len(str) THEN <<>>
  ELSE IF MatchAt(str, i, TokenTotal)
       THEN ttxt \o Replaced(str, i + Len(TokenTotal), vtxt, ttxt)
  ELSE IF MatchAt(str, i, TokenValue)
       THEN vtxt \o Replaced(str, i + Len(TokenValue), vtxt, ttxt)
  ELSE <<str[i]>> \o Replaced(str, i + 1, vtxt, ttxt)

\* |a - b|
BDist(a, b) == IF BCmp(a, b) >= 0 THEN BSub(a, b) ELSE BSub(b, a)

\* txt is digits, a point and two digits, and the number it writes is
\* within half a hundredth of the finite v >= 0
TwoDecimalsOf(txt, v) ==
  LET n == Len(txt)
      h == BFromDigits(DigitsOf(SubSeq(txt, 1, n - 3) \o SubSeq(txt, n - 1, n)))
  IN  /\ n >= 4
      /\ txt[n - 2] = "."
      /\ AllDigits(SubSeq(txt, 1, n - 3) \o SubSeq(txt, n - 1, n))
      /\ IF v.e >= 0 THEN h = BShl(BMulSmall(v.m, 100), v.e)
         ELSE BCmp(BDist(BMulSmall(v.m, 100), BShl(h, 0 - v.e)),
                   BShl(<<1>>, 0 - v.e - 1)) <= 0

\* C9: applyFormula hands to the evaluator the formula with every #VALUE
\* replaced by value and every #TOTAL_VALUE by total, each written with
\* exactly two decimals; replacing #VALUE first leaves every #TOTAL_VALUE
\* to be replaced by total; and the result for a formula without a token
\* does not depend on value and total.
C9_Substitution ==
  Returned("applyFormula") =>
    /\ TwoDecimalsOf(FormatFloat2(call.args[2]), call.args[2])
    /\ TwoDecimalsOf(FormatFloat2(call.args[3]), call.args[3])
    /\ substituted = Replaced(call.args[1], 1, FormatFloat2(call.args[2]),
                              FormatFloat2(call.args[3]))
    /\ ~HasToken(substituted)
    /\ result = evalFormula(substituted)
    /\ ~HasToken(call.args[1]) =>
         /\ substituted = call.args[1]
         /\ \A p \in OperandPairs :
              applyFormulaTable[<<call.args[1], p[1], p[2]>>] = result

\* #VALUE occurs twice and #TOTAL_VALUE once: 0.125 + 0.125 - 4
C9_Witness ==
  /\ Returned("applyFormula")
  /\ call.args = <<FormulaTwice, F64Pow2(0 - 3), F64Pow2(2)>>
  /\ substituted = <<"0", ".", "1", "2", " ", "+", " ", "0", ".", "1", "2",
                     " ", "-", " ", "4", ".", "0", "0">>
  /\ result = Ret(F64FromRat(1, <<376>>, <<100>>, 0), NoErr)

\* the value of the digits before the first point of str, when str starts
\* with a digit and has only digits before its first point (or its end)
IntegralPart(str) ==
  BFromDigits(DigitsOf(SubSeq(str, 1, RunEnd(str, 1, IsDigit) - 1)))

DigitsThenPoint(str) ==
  /\ str # <<>>
  /\ IsDigit(str[1])
  /\ RunEnd(str, 1, IsDigit) = Len(str) + 1 \/ str[RunEnd(str, 1, IsDigit)] = "."

\* C10, as the spec states it: StringToUint64 returns the integral part of
\* digits followed by nothing or by a point and anything, and 0 for every
\* other input; ConvertStringToInt and StringToFloat return zero for every
\* input strconv reports an error for, numerals out of range included.
C10_ZeroOnMalformed ==
  /\ Returned("StringToUint64") =>
       result = IF DigitsThenPoint(call.args[1])
                   /\ BCmp(IntegralPart(call.args[1]), MaxUint64) <= 0
                THEN IntegralPart(call.args[1]) ELSE <<>>
  /\ (Returned("ConvertStringToInt") /\ Atoi(call.args[1]).err # "") =>
       result = IntOf(FALSE, <<>>)
  /\ (/\ Returned("StringToFloat")
      /\ ~ParseFloat(call.args[1]).ok \/ ParseFloat(call.args[1]).range) =>
       IsZero(result)

====
